---------------------------- MODULE Spec2Model ----------------------------
(***************************************************************************)
(* AI Sprint Planner: the prediction engine (model.js, kept here as        *)
(* src/unnamed/part_001) and the express handlers of src/server.js.        *)
(*                                                                         *)
(* Representation.                                                         *)
(*  - A text is a sequence of words separated by single blanks; NL is the  *)
(*    line feed server.js puts between Summary and Description.            *)
(*  - Confidence is kept in hundredths (0.85 is 85), a complexity score in *)
(*    six-hundredths (1/120 is 5, 0.05 is 30), an average in hundredths    *)
(*    or tenths as toFixed prints it.                                      *)
(*  - A classifier score is a natural number of half nano units, so that   *)
(*    the 1e-9 of predictRecord is 2 and a smaller positive score exists.  *)
(*  - Every handler body of server.js is synchronous (no await), so Node   *)
(*    runs it to completion: one action per handler.                       *)
(***************************************************************************)
EXTENDS Naturals, Integers, Sequences, FiniteSets, TLC

VARIABLES lastDataset, res, call

vars == <<lastDataset, res, call>>

(***************************************************************************)
(* Bounds of the model.                                                    *)
(***************************************************************************)
\* words of Summary and Description together, in the per-record specification
MaxWords == 2
\* data rows of an uploaded CSV, in the server specification
MaxRows == 2
\* words of a chat message, in the server specification
MaxMsgLen == 3
\* rows of the dataset, in the ranking specification
MaxRankRows == 6

Min(a, b) == IF a <= b THEN a ELSE b
Max(a, b) == IF a >= b THEN a ELSE b

\* Math.round and Number.prototype.toFixed on a non-negative ratio n/d:
\* the nearest integer, the larger one on a tie.
RoundDiv(n, d) == (2 * n + d) \div (2 * d)

(***************************************************************************)
(* Text.                                                                   *)
(***************************************************************************)
NL == "\n"

\* The words a Summary or Description cell is made of.
Vocabulary ==
    {"the", "!", "Outage", "data", "loss", "typos", "simple", "sev1",
     "payment-api"}

TextsUpTo(n) == UNION {[1..k -> Vocabulary] : k \in 0..n}

\* String.prototype.toLowerCase on a word.
toLowerCase(w) ==
    IF w = "Outage" THEN "outage" ELSE IF w = "Help" THEN "help" ELSE w

Lowered(text) == [i \in 1..Len(text) |-> toLowerCase(text[i])]

\* The keywords that occur inside a lowercased word or token (a regular
\* expression and String.prototype.includes both match inside a word).
Sub(w) ==
    IF w = "typos" THEN {"typos", "typo"}
    ELSE IF w = "payment-api" THEN {"payment-api", "payment", "api"}
    ELSE {w}

\* phrase (one or two keywords separated by one blank) occurs in the words.
Includes(words, phrase) ==
    \E i \in 1..Len(words) :
        /\ i + Len(phrase) - 1 <= Len(words)
        /\ \A j \in 1..Len(phrase) : phrase[j] \in Sub(words[i + j - 1])

IncludesAny(words, phrases) == \E p \in phrases : Includes(words, p)

\* natural.WordPunctTokenizer on one lowercased word: letters and digits are
\* separate tokens, a punctuation mark or a line feed is a token of its own.
WordTokens(w) == IF w = "sev1" THEN <<"sev", "1">> ELSE <<w>>

RECURSIVE tokenize(_)
tokenize(text) ==
    IF text = <<>> THEN <<>>
    ELSE WordTokens(Head(text)) \o tokenize(Tail(text))

stopwords ==
    {"the", "a", "an", "and", "or", "but", "to", "of", "in", "on", "for",
     "with", "by", "at", "is", "are", "be", "this", "that", "it", "as",
     "from", "into", "via", "over", "under", "we", "i", "you"}

\* /[a-z0-9#]+/.test(t)
AlnumToken(t) == t \notin {"!", NL}

NotStopword(t) == t \notin stopwords

\* clean: the tokens that survive, which the code joins with blanks.
clean(text) ==
    SelectSeq(SelectSeq(tokenize(Lowered(text)), AlnumToken), NotStopword)

\* String.prototype.trim on summary + "\n" + description.
RECURSIVE TrimLeft(_)
TrimLeft(text) ==
    IF text # <<>> /\ Head(text) = NL THEN TrimLeft(Tail(text)) ELSE text

RECURSIVE TrimRight(_)
TrimRight(text) ==
    IF text # <<>> /\ text[Len(text)] = NL
    THEN TrimRight(SubSeq(text, 1, Len(text) - 1))
    ELSE text

trim(text) == TrimRight(TrimLeft(text))

(***************************************************************************)
(* Story points and hours.                                                 *)
(***************************************************************************)
fib == <<1, 2, 3, 5, 8, 13>>

tinyKeywords ==
    {<<"typo">>, <<"copy">>, <<"text">>, <<"docs">>, <<"readme">>,
     <<"color">>, <<"padding">>, <<"icon">>}
smallKeywords ==
    {<<"validation">>, <<"minor">>, <<"ui">>, <<"tooltip">>, <<"css">>,
     <<"logging">>, <<"small">>, <<"refactor">>}
mediumKeywords ==
    {<<"api">>, <<"schema">>, <<"cache">>, <<"queue">>, <<"oauth">>,
     <<"retry">>, <<"pagination">>, <<"migration">>, <<"feature">>}
largeKeywords ==
    {<<"payment">>, <<"encryption">>, <<"security">>, <<"outage">>,
     <<"deadlock">>, <<"data", "loss">>, <<"race", "condition">>,
     <<"recovery">>, <<"multi-tenant">>, <<"compliance">>}

\* addIf: the weight once for every keyword of the list that t includes.
addIf(t, list) == Cardinality({k \in list : Includes(t, k)})

\* scoreComplexity, in six-hundredths.
scoreComplexity(text) ==
    LET t == clean(text)
        len == Max(1, Len(t))
        score == Min(600, 5 * len)
                   - 120 * addIf(t, tinyKeywords)
                   + 30 * addIf(t, smallKeywords)
                   + 90 * addIf(t, mediumKeywords)
                   + 210 * addIf(t, largeKeywords)
    IN  Max(0, Min(900, score))

thresholds == <<90, 180, 300, 480, 660, 900>>

\* Variant of toFib that returns the bucket's number instead of its value.
toFibBucket(score) ==
    IF \E i \in 1..Len(thresholds) : score <= thresholds[i]
    THEN CHOOSE i \in 1..Len(thresholds) :
            /\ score <= thresholds[i]
            /\ \A j \in 1..(i - 1) : score > thresholds[j]
    ELSE 13

toFib(score) ==
    IF \E i \in 1..Len(thresholds) : score <= thresholds[i]
    THEN fib[CHOOSE i \in 1..Len(thresholds) :
                /\ score <= thresholds[i]
                /\ \A j \in 1..(i - 1) : score > thresholds[j]]
    ELSE 13

baseHours(points) ==
    CASE points = 1 -> 4
      [] points = 2 -> 6
      [] points = 3 -> 8
      [] points = 5 -> 16
      [] points = 8 -> 32
      [] points = 13 -> 56
      [] OTHER -> 8

\* estimateHoursFn: base * 1.3 * 0.8 * 1.25 as the fraction num / 200.
estimateHoursFn(points, text) ==
    LET t == clean(text)
        risky == IncludesAny(t, {<<"spike">>, <<"investigate">>, <<"unknown">>,
                                 <<"legacy">>, <<"undocumented">>})
        easy == IncludesAny(t, {<<"well-defined">>, <<"simple">>, <<"trivial">>,
                                <<"straightforward">>})
        shared == IncludesAny(t, {<<"cross-team">>, <<"multiple", "services">>,
                                  <<"coordination">>, <<"dependency">>})
        num == baseHours(points)
                 * (IF risky THEN 13 ELSE 10)
                 * (IF easy THEN 4 ELSE 5)
                 * (IF shared THEN 5 ELSE 4)
    IN  RoundDiv(num, 200)


(***************************************************************************)
(* The classifier.  natural.BayesClassifier is a library: what               *)
(* getClassifications(content) does is an input of the model, either an    *)
(* exception or a ranking sorted highest first, of which predictRecord     *)
(* reads the first label and the first two scores.  The library ranks      *)
(* every trained label; the exception, the empty ranking and the ranking   *)
(* of one entry are the outcomes predictRecord guards against (try/catch,  *)
(* classifications.length, classifications[1]?.value).  A score is 0 when  *)
(* the product of the token probabilities underflows.                      *)
(***************************************************************************)
Labels == {"Critical", "High", "Medium", "Low"}

ClfValues == {0, 1, 6, 400}

\* The label ranked second (predictRecord never reads it).
RunnerUp(l) == IF l = "Medium" THEN "Low" ELSE "Medium"

Rankings ==
    {<<>>}
    \cup {<<[label |-> l, value |-> v]>> : l \in Labels, v \in ClfValues}
    \cup {<<[label |-> l, value |-> p[1]], [label |-> RunnerUp(l), value |-> p[2]]>> :
            l \in Labels, p \in {q \in ClfValues \X ClfValues : q[2] <= q[1]}}

ClassifierOutcomes ==
    {[throws |-> TRUE, classifications |-> <<>>]}
    \cup {[throws |-> FALSE, classifications |-> c] : c \in Rankings}

\* 1e-9, in the unit of the classifier scores.
TinyScore == 2

(***************************************************************************)
(* predictRecord and its helpers.                                          *)
(***************************************************************************)
\* /sev1|p0|outage|down|cannot login|payment failed|data loss|security|breach/
emergencyPattern ==
    {<<"sev1">>, <<"p0">>, <<"outage">>, <<"down">>, <<"cannot", "login">>,
     <<"payment", "failed">>, <<"data", "loss">>, <<"security">>, <<"breach">>}

IsEmergency(raw) == IncludesAny(raw, emergencyPattern)

buildRationale(priority, sp, hours, raw) ==
    LET cue(phrases, name) ==
            IF IncludesAny(raw, phrases) THEN <<name>> ELSE <<>>
        cues ==
            cue({<<"outage">>, <<"down">>, <<"unreachable">>}, "service outage")
            \o cue({<<"security">>, <<"breach">>, <<"encryption">>}, "security risk")
            \o cue({<<"payment">>, <<"checkout">>}, "revenue impact")
            \o cue({<<"typo">>, <<"copy">>, <<"color">>, <<"css">>}, "cosmetic")
            \o cue({<<"migration">>, <<"schema">>, <<"api">>, <<"integration">>},
                   "system integration")
    IN  [template |-> "Priority based on cues",
         priority |-> priority,
         cues |-> IF cues = <<>> THEN <<"general classification">> ELSE cues,
         sp |-> sp,
         hours |-> hours]

NoTextRationale ==
    [template |-> "No text provided. Falling back to conservative defaults.",
     priority |-> "Low", cues |-> <<>>, sp |-> 1, hours |-> 4]

\* Variant of classify that keeps the defaults unless a second score exists
\* and is positive.
classifyNeedsTwo(model) ==
    LET c == model.classifications
    IN  IF model.throws \/ Len(c) < 2 \/ c[Len(c)].value = 0
        THEN [priority |-> "Medium", confidence |-> 60]
        ELSE [priority |-> c[1].label,
              confidence |->
                  Max(50, Min(99, RoundDiv(100 * c[1].value,
                                           c[1].value + c[2].value)))]

\* The try block: defaults Medium and 0.6, replaced when the ranking is not
\* empty; an exception keeps the defaults.
classify(model) ==
    LET c == model.classifications
    IN  IF model.throws \/ Len(c) = 0
        THEN [priority |-> "Medium", confidence |-> 60]
        ELSE LET top == c[1].value
                 second == IF Len(c) >= 2 /\ c[2].value # 0
                           THEN c[2].value ELSE TinyScore
             IN  [priority |-> c[1].label,
                  confidence |->
                      Max(50, Min(99, RoundDiv(100 * top, top + second)))]

\* Variant of override that forces the priority and leaves the confidence.
overridePriorityOnly(c, raw) ==
    IF IsEmergency(raw)
    THEN [priority |-> "Critical", confidence |-> c.confidence]
    ELSE c

\* The keyword override on the raw lowercased text.
override(c, raw) ==
    IF IsEmergency(raw)
    THEN [priority |-> "Critical", confidence |-> Max(c.confidence, 85)]
    ELSE c

\* Variant of the short-circuit test that looks at the text as given.
NoContentRaw(text) == text = <<>>

\* The test that short-circuits predictRecord: !content.
NoContent(text) == clean(text) = <<>>

\* predictRecord(model, text); model is what the classifier does on this call.
predictRecord(model, text) ==
    IF NoContent(text)
    THEN [priority |-> "Low", storyPoints |-> 1, estimateHours |-> 4,
          confidence |-> 40, rationale |-> NoTextRationale]
    ELSE LET raw == Lowered(text)
             c == override(classify(model), raw)
             storyPoints == toFib(scoreComplexity(text))
             estimateHours == estimateHoursFn(storyPoints, text)
         IN  [priority |-> c.priority,
              storyPoints |-> storyPoints,
              estimateHours |-> estimateHours,
              confidence |-> c.confidence,
              rationale |-> buildRationale(c.priority, storyPoints,
                                           estimateHours, raw)]

(***************************************************************************)
(* POST /api/predict.                                                      *)
(***************************************************************************)
\* row['Summary'] ?? row['summary'] ?? '' (a CSV record is a function from
\* its column names to cells).
Cell(row, name, alias) ==
    IF name \in DOMAIN row THEN row[name]
    ELSE IF alias \in DOMAIN row THEN row[alias]
    ELSE <<>>

\* `${summary}\n${description}`.trim()
RowText(row) ==
    trim(Cell(row, "Summary", "summary") \o <<NL>>
         \o Cell(row, "Description", "description"))

\* The callback of records.map.
AugmentRow(row, idx, model) ==
    LET result == predictRecord(model, RowText(row))
    IN  [Row |-> idx,
         Summary |-> Cell(row, "Summary", "summary"),
         Description |-> Cell(row, "Description", "description"),
         Priority |-> result.priority,
         StoryPoints |-> result.storyPoints,
         EstimateHours |-> result.estimateHours,
         Confidence |-> result.confidence,
         Rationale |-> result.rationale]

Augment(records, models) ==
    [i \in 1..Len(records) |-> AugmentRow(records[i], i, models[i])]

\* Variant of the assignment that adds the new rows to the stored ones.
ReplaceDatasetAppend(old, augmented) == old \o augmented

\* lastDataset = augmented
ReplaceDataset(old, augmented) == augmented

\* /\.csv$/i.test(req.file.originalname)
IsCsvName(name) == name \in {"backlog.csv", "BACKLOG.CSV"}

\* headers.some(h => h.toLowerCase() === column)
HasColumn(records, column) ==
    \E h \in DOMAIN records[1] :
        (IF h = "Summary" THEN "summary"
         ELSE IF h = "Description" THEN "description" ELSE h) = column

NoReply == [intent |-> "none", rows |-> <<>>, counts |-> <<>>,
            avgStoryPoints |-> 0, avgHours |-> 0]

NoMessage == [isString |-> FALSE, words |-> <<>>]

NoRes == [kind |-> "none", status |-> 0, error |-> "", msg |-> NoMessage,
          reply |-> NoReply, data |-> <<>>]

ErrorRes(kind, status, error) ==
    [NoRes EXCEPT !.kind = kind, !.status = status, !.error = error]

NoCall == [active |-> FALSE, done |-> FALSE, record |-> <<>>,
           model |-> [throws |-> TRUE, classifications |-> <<>>]]

\* new Json2Csv({ fields }).parse(augmented): json2csv is a library, so
\* whether the call returns or throws is an input of the model.
SerializerOutcomes == {"returns", "throws"}

\* The handler of POST /api/predict on one upload; models[i] is what the
\* classifier does for row i, csv is what the serializer does on the batch.
\* The statements of the try block run in the order of the code: the batch
\* is assigned to lastDataset before it is serialized, and an exception of
\* the serializer reaches the catch clause after the assignment.
Predict(upload, models, csv) ==
    /\ IF ~upload.file
       THEN /\ res' = ErrorRes("predict", 400, "No file uploaded.")
            /\ UNCHANGED lastDataset
       ELSE IF ~IsCsvName(upload.originalname)
       THEN /\ res' = ErrorRes("predict", 400, "Invalid file type.")
            /\ UNCHANGED lastDataset
       ELSE IF ~upload.parses
       THEN /\ res' = ErrorRes("predict", 500, "Failed to process CSV.")
            /\ UNCHANGED lastDataset
       ELSE IF Len(upload.records) = 0
       THEN /\ res' = ErrorRes("predict", 400, "CSV appears empty.")
            /\ UNCHANGED lastDataset
       ELSE IF ~HasColumn(upload.records, "summary")
               /\ ~HasColumn(upload.records, "description")
       THEN /\ res' = ErrorRes("predict", 400, "CSV must include a column.")
            /\ UNCHANGED lastDataset
       ELSE LET augmented == Augment(upload.records, models)
            IN  /\ lastDataset' = ReplaceDataset(lastDataset, augmented)
                /\ res' = IF csv = "throws"
                          THEN ErrorRes("predict", 500, "Failed to process CSV.")
                          ELSE [NoRes EXCEPT !.kind = "predict", !.status = 200,
                                             !.data = augmented]

CsvUpload(records) ==
    [file |-> TRUE, originalname |-> "backlog.csv", parses |-> TRUE,
     records |-> records]

(***************************************************************************)
(* The per-record specification: one CSV of one data row, the words of its *)
(* two cells and the classifier's outcome drawn from the bounded sets.     *)
(***************************************************************************)
OneRowRecords ==
    {[Summary |-> s, Description |-> d] :
        <<s, d>> \in {p \in TextsUpTo(MaxWords) \X TextsUpTo(MaxWords) :
                        Len(p[1]) + Len(p[2]) <= MaxWords}}

InitPredict ==
    /\ lastDataset = <<>>
    /\ res = NoRes
    /\ call \in {[active |-> TRUE, done |-> FALSE, record |-> r, model |-> m] :
                    r \in OneRowRecords, m \in ClassifierOutcomes}

\* The per-record properties are about the rows predictRecord returns, so
\* the serializer is the one that returns.
PredictOne ==
    /\ call.active
    /\ ~call.done
    /\ res.kind = "none"
    /\ Predict(CsvUpload(<<call.record>>), <<call.model>>, "returns")
    /\ call' = [call EXCEPT !.done = TRUE]

NextPredict == PredictOne

SpecPredict == InitPredict /\ [][NextPredict]_vars


(***************************************************************************)
(* POST /api/chat.                                                         *)
(***************************************************************************)
\* The words a chat message is made of.
ChatVocabulary ==
    {"why", "row", "0", "1", "2", "count", "Help", "critical", "avg"}

Digits == {"0", "1", "2"}

\* parseInt(s, 10) on a run of digits.
parseInt(w) == IF w = "0" THEN 0 ELSE IF w = "1" THEN 1 ELSE 2

\* The characters of a word.
WordLength(w) ==
    IF w \in Digits THEN 1
    ELSE IF w \in {"why", "row", "avg"} THEN 3
    ELSE IF w = "Help" THEN 4
    ELSE IF w = "count" THEN 5
    ELSE 8

RECURSIVE SumSeq(_)
SumSeq(s) == IF s = <<>> THEN 0 ELSE Head(s) + SumSeq(Tail(s))

\* message.trim().length
TrimmedLength(words) ==
    IF words = <<>> THEN 0
    ELSE SumSeq([i \in 1..Len(words) |-> WordLength(words[i])]) + Len(words) - 1

\* !message || typeof message !== 'string' || message.trim().length < 2
InvalidMessage(message) ==
    \/ ~message.isString
    \/ message.words = <<>>
    \/ TrimmedLength(message.words) < 2

\* /why\s+(?:row|record|id)?\s*(\d+)/ matched at word i of msg.
WhyAt(msg, i) ==
    /\ "why" \in Sub(msg[i])
    /\ \/ i + 1 <= Len(msg) /\ msg[i + 1] \in Digits
       \/ /\ i + 2 <= Len(msg)
          /\ msg[i + 1] \in {"row", "record", "id"}
          /\ msg[i + 2] \in Digits

\* msg.match(...): the leftmost match and its group 1, or no match.
whyMatch(msg) ==
    IF \E i \in 1..Len(msg) : WhyAt(msg, i)
    THEN LET i == CHOOSE k \in 1..Len(msg) :
                      WhyAt(msg, k) /\ \A j \in 1..(k - 1) : ~WhyAt(msg, j)
         IN  [matched |-> TRUE,
              group |-> IF msg[i + 1] \in Digits THEN msg[i + 1] ELSE msg[i + 2]]
    ELSE [matched |-> FALSE, group |-> "0"]

\* Variant of the index that forgets the rows are numbered from 1.
WhyIndexNoOffset(group) == parseInt(group)

\* parseInt(whyMatch[1], 10) - 1
WhyIndex(group) == parseInt(group) - 1

distributionPattern ==
    {<<"distribution">>, <<"count">>, <<"how", "many">>, <<"breakdown">>,
     <<"summary", "of", "priority">>}
helpPattern ==
    {<<"help">>, <<"what", "can", "you", "do">>, <<"commands">>, <<"options">>}
topPattern == {<<"top", "risky">>, <<"highest", "priority">>, <<"critical">>}
averagePattern == {<<"average">>, <<"avg">>}

priorityRank(p) ==
    CASE p = "Critical" -> 4
      [] p = "High" -> 3
      [] p = "Medium" -> 2
      [] p = "Low" -> 1
      [] OTHER -> 0

\* Variant of the comparator with its operands exchanged.
compareRiskAscending(a, b) ==
    IF priorityRank(a.Priority) - priorityRank(b.Priority) # 0
    THEN priorityRank(a.Priority) - priorityRank(b.Priority)
    ELSE a.Confidence - b.Confidence

\* The comparator of the sort: negative puts a before b.
compareRisk(a, b) ==
    IF priorityRank(b.Priority) - priorityRank(a.Priority) # 0
    THEN priorityRank(b.Priority) - priorityRank(a.Priority)
    ELSE b.Confidence - a.Confidence

\* Array.prototype.sort is stable: a row goes behind every row that does not
\* compare after it.
InsertRow(sorted, r) ==
    LET k == Cardinality({i \in 1..Len(sorted) : compareRisk(sorted[i], r) <= 0})
    IN  SubSeq(sorted, 1, k) \o <<r>> \o SubSeq(sorted, k + 1, Len(sorted))

RECURSIVE sortRows(_)
sortRows(rows) ==
    IF rows = <<>> THEN <<>>
    ELSE InsertRow(sortRows(SubSeq(rows, 1, Len(rows) - 1)), rows[Len(rows)])

\* Variant that sorts lastDataset itself: lastDataset.sort(...).
TopRiskySortInPlace(dataset) ==
    [sorted |-> sortRows(dataset), dataset |-> sortRows(dataset)]

\* [...lastDataset].sort(...): the sorted copy, and lastDataset after it.
TopRiskySort(dataset) ==
    [sorted |-> sortRows(dataset), dataset |-> dataset]

\* sorted.slice(0, Math.min(5, sorted.length)).map(...)
TopLines(sorted) ==
    [i \in 1..Min(5, Len(sorted)) |->
        [Row |-> sorted[i].Row, Priority |-> sorted[i].Priority,
         StoryPoints |-> sorted[i].StoryPoints,
         EstimateHours |-> sorted[i].EstimateHours]]

explainPrediction(row) ==
    [Row |-> row.Row, Priority |-> row.Priority,
     Confidence |-> row.Confidence, Rationale |-> row.Rationale]

\* summarizeDataset: the counts in the order the priorities first appear,
\* and the averages as sums over Math.max(1, length).
summarizeDataset(data) ==
    LET firsts == SelectSeq([i \in 1..Len(data) |-> i],
                            LAMBDA i : \A j \in 1..(i - 1) :
                                          data[j].Priority # data[i].Priority)
        count(p) == Cardinality({i \in 1..Len(data) : data[i].Priority = p})
    IN  [priorityCounts |->
            [k \in 1..Len(firsts) |->
                <<data[firsts[k]].Priority, count(data[firsts[k]].Priority)>>],
         sumStoryPoints |-> SumSeq([i \in 1..Len(data) |-> data[i].StoryPoints]),
         sumHours |-> SumSeq([i \in 1..Len(data) |-> data[i].EstimateHours]),
         divisor |-> Max(1, Len(data))]

Reply(intent) == [NoReply EXCEPT !.intent = intent]

DistributionReply(dataset) ==
    LET s == summarizeDataset(dataset)
    IN  [Reply("distribution") EXCEPT
            !.counts = s.priorityCounts,
            !.avgStoryPoints = RoundDiv(100 * s.sumStoryPoints, s.divisor),
            !.avgHours = RoundDiv(10 * s.sumHours, s.divisor)]

AverageReply(dataset) ==
    LET s == summarizeDataset(dataset)
    IN  [Reply("average") EXCEPT
            !.avgStoryPoints = RoundDiv(100 * s.sumStoryPoints, s.divisor),
            !.avgHours = RoundDiv(10 * s.sumHours, s.divisor)]

\* Variant of the cascade that tests help before distribution.
LaterIntentsHelpFirst(msg, dataset) ==
    IF IncludesAny(msg, helpPattern) THEN Reply("help")
    ELSE IF IncludesAny(msg, distributionPattern) THEN DistributionReply(dataset)
    ELSE IF IncludesAny(msg, topPattern)
    THEN [Reply("top") EXCEPT !.rows = TopLines(TopRiskySort(dataset).sorted)]
    ELSE IF IncludesAny(msg, averagePattern) THEN AverageReply(dataset)
    ELSE Reply("fallback")

\* The intents after the explain-row intent, in the order of the code.
LaterIntents(msg, dataset) ==
    IF IncludesAny(msg, distributionPattern) THEN DistributionReply(dataset)
    ELSE IF IncludesAny(msg, helpPattern) THEN Reply("help")
    ELSE IF IncludesAny(msg, topPattern)
    THEN [Reply("top") EXCEPT !.rows = TopLines(TopRiskySort(dataset).sorted)]
    ELSE IF IncludesAny(msg, averagePattern) THEN AverageReply(dataset)
    ELSE Reply("fallback")

\* The intents of a dataset that holds rows: explain-row, then the others.
Intents(msg, dataset) ==
    LET m == whyMatch(msg)
    IN  IF /\ m.matched
           /\ WhyIndex(m.group) >= 0
           /\ WhyIndex(m.group) < Len(dataset)
        THEN [Reply("explain") EXCEPT
                 !.rows = <<explainPrediction(dataset[WhyIndex(m.group) + 1])>>]
        ELSE LaterIntents(msg, dataset)

\* Variant of ChatReply without the test for an empty dataset.
ChatReplyUnguarded(msg, dataset) == Intents(msg, dataset)

\* The reply to a valid message; msg is message.toLowerCase().
ChatReply(msg, dataset) ==
    IF Len(dataset) = 0 THEN Reply("nodataset") ELSE Intents(msg, dataset)

\* The handler of POST /api/chat on the body {message}.
Chat(message) ==
    /\ IF InvalidMessage(message)
       THEN /\ res' = [ErrorRes("chat", 400, "Message is required.")
                          EXCEPT !.msg = message]
            /\ UNCHANGED lastDataset
       ELSE LET msg == Lowered(message.words)
                reply == ChatReply(msg, lastDataset)
            IN  /\ res' = [NoRes EXCEPT !.kind = "chat", !.status = 200,
                                        !.msg = message, !.reply = reply]
                /\ lastDataset' = IF reply.intent = "top"
                                  THEN TopRiskySort(lastDataset).dataset
                                  ELSE lastDataset

\* The handler of POST /api/clear.
Clear ==
    /\ lastDataset' = <<>>
    /\ res' = [NoRes EXCEPT !.kind = "clear", !.status = 200]

\* No handler is running: the response of the last one has left.
Idle == res.kind = "none"

\* The response leaves; the next request is handled.
Send ==
    /\ ~Idle
    /\ res' = NoRes
    /\ UNCHANGED lastDataset

MessagesUpTo(n) ==
    {NoMessage}
    \cup {[isString |-> TRUE, words |-> w] :
            w \in UNION {[1..k -> ChatVocabulary] : k \in 0..n}}

(***************************************************************************)
(* The server specification: the three handlers in any order.              *)
(***************************************************************************)
\* CSV rows with what the classifier does on each.
SampleInputs ==
    {[record |-> [Summary |-> <<>>, Description |-> <<>>],
      model |-> [throws |-> TRUE, classifications |-> <<>>]],
     [record |-> [Summary |-> <<"Outage">>, Description |-> <<"the">>],
      model |-> [throws |-> FALSE,
                 classifications |-> <<[label |-> "Low", value |-> 6],
                                       [label |-> "Medium", value |-> 6]>>]],
     [record |-> [Summary |-> <<"typos">>],
      model |-> [throws |-> FALSE,
                 classifications |-> <<[label |-> "High", value |-> 6],
                                       [label |-> "Medium", value |-> 1]>>]],
     [record |-> [Summary |-> <<"simple">>, Description |-> <<"data">>],
      model |-> [throws |-> FALSE,
                 classifications |-> <<[label |-> "Medium", value |-> 6],
                                       [label |-> "Low", value |-> 1]>>]]}

InputRows(n) == UNION {[1..k -> SampleInputs] : k \in 1..n}

RecordsOf(inputs) == [i \in 1..Len(inputs) |-> inputs[i].record]
ModelsOf(inputs) == [i \in 1..Len(inputs) |-> inputs[i].model]

\* Uploads the handler answers with an error, and a CSV with lowercase headers.
OtherUploads ==
    {[file |-> FALSE, originalname |-> "", parses |-> FALSE, records |-> <<>>],
     [file |-> TRUE, originalname |-> "notes.txt", parses |-> TRUE,
      records |-> <<[Summary |-> <<"Outage">>]>>],
     [file |-> TRUE, originalname |-> "BACKLOG.CSV", parses |-> FALSE,
      records |-> <<>>],
     [file |-> TRUE, originalname |-> "backlog.csv", parses |-> TRUE,
      records |-> <<>>],
     [file |-> TRUE, originalname |-> "backlog.csv", parses |-> TRUE,
      records |-> <<[Title |-> <<"Outage">>]>>],
     [file |-> TRUE, originalname |-> "BACKLOG.CSV", parses |-> TRUE,
      records |-> <<[summary |-> <<"sev1">>, description |-> <<"!">>]>>]}

Init ==
    /\ lastDataset = <<>>
    /\ res = NoRes
    /\ call = NoCall

PredictRequest ==
    /\ Idle
    /\ \/ \E inputs \in InputRows(MaxRows), csv \in SerializerOutcomes :
              Predict(CsvUpload(RecordsOf(inputs)), ModelsOf(inputs), csv)
       \/ \E upload \in OtherUploads, m \in ClassifierOutcomes,
              csv \in SerializerOutcomes :
              /\ m.classifications = <<>>
              /\ Predict(upload, <<m>>, csv)
    /\ UNCHANGED call

ChatRequest ==
    /\ Idle
    /\ \E message \in MessagesUpTo(MaxMsgLen) : Chat(message)
    /\ UNCHANGED call

ClearRequest == Idle /\ Clear /\ UNCHANGED call

SendResponse == Send /\ UNCHANGED call

Next == PredictRequest \/ ChatRequest \/ ClearRequest \/ SendResponse

Spec == Init /\ [][Next]_vars

(***************************************************************************)
(* The ranking specification: chat over a dataset of up to MaxRankRows     *)
(* rows that one upload left behind.                                       *)
(***************************************************************************)
RankInputs ==
    {[record |-> [Summary |-> <<>>, Description |-> <<>>],
      model |-> [throws |-> TRUE, classifications |-> <<>>]],
     [record |-> [Summary |-> <<"sev1">>, Description |-> <<>>],
      model |-> [throws |-> FALSE,
                 classifications |-> <<[label |-> "Low", value |-> 6],
                                       [label |-> "Medium", value |-> 6]>>]],
     [record |-> [Summary |-> <<"typos">>, Description |-> <<>>],
      model |-> [throws |-> FALSE,
                 classifications |-> <<[label |-> "High", value |-> 6],
                                       [label |-> "Medium", value |-> 1]>>]],
     [record |-> [Summary |-> <<"simple">>, Description |-> <<>>],
      model |-> [throws |-> FALSE,
                 classifications |-> <<[label |-> "High", value |-> 400],
                                       [label |-> "Medium", value |-> 1]>>]]}

InitRank ==
    /\ \E inputs \in UNION {[1..k -> RankInputs] : k \in 1..MaxRankRows} :
          lastDataset = ReplaceDataset(<<>>, Augment(RecordsOf(inputs),
                                                     ModelsOf(inputs)))
    /\ res = NoRes
    /\ call = NoCall

ChatRank ==
    /\ Idle
    /\ \E message \in MessagesUpTo(1) : Chat(message)
    /\ UNCHANGED call

NextRank == ChatRank \/ SendResponse

SpecRank == InitRank /\ [][NextRank]_vars


(***************************************************************************)
(* Properties of predictRecord, under SpecPredict.                         *)
(***************************************************************************)
\* The call of the per-record specification has returned.
Predicted == call.active /\ call.done /\ Len(lastDataset) = 1

CallText == RowText(call.record)

FixedResult(row) ==
    /\ row.Priority = "Low"
    /\ row.StoryPoints = 1
    /\ row.EstimateHours = 4
    /\ row.Confidence = 40
    /\ row.Rationale.template
         = "No text provided. Falling back to conservative defaults."

\* n hundredths is top / (top + second) clamped to [0.5, 0.99] and rounded
\* to two decimals.
IsClampedRatio(n, top, second) ==
    LET d == top + second
    IN  \/ n = 50 /\ 200 * top < 101 * d
        \/ n = 99 /\ 200 * top >= 197 * d
        \/ /\ 50 < n
           /\ n < 99
           /\ (2 * n - 1) * d <= 200 * top
           /\ 200 * top < (2 * n + 1) * d

\* The scores of the ranking that are positive.
PositiveScores(c) == Cardinality({i \in 1..Len(c) : c[i].value > 0})

\* C5: a text whose raw lowercased form matches the emergency pattern gets
\* priority Critical and a confidence of at least 0.85, whatever the
\* classifier returned or whether it threw.
C5_EmergencyOverride ==
    Predicted /\ IsEmergency(Lowered(CallText))
        => /\ lastDataset[1].Priority = "Critical"
           /\ lastDataset[1].Confidence >= 85

\* The classifier ranked Low first with a dominant score, the text holds an
\* emergency keyword, and the row is Critical.
C5_Witness ==
    /\ Predicted
    /\ IsEmergency(Lowered(CallText))
    /\ ~call.model.throws
    /\ Len(call.model.classifications) = 2
    /\ call.model.classifications[1].label = "Low"
    /\ call.model.classifications[2].value = 0
    /\ lastDataset[1].Priority = "Critical"
    /\ lastDataset[1].Confidence >= 85

\* C6: every stored row has story points on the six-value scale, a positive
\* integer of hours, a confidence in [0.4, 0.99] and one of the four
\* priorities.
C6_RowRanges ==
    \A i \in 1..Len(lastDataset) :
        /\ lastDataset[i].StoryPoints \in {1, 2, 3, 5, 8, 13}
        /\ lastDataset[i].EstimateHours \in Nat
        /\ lastDataset[i].EstimateHours >= 1
        /\ lastDataset[i].Confidence >= 40
        /\ lastDataset[i].Confidence <= 99
        /\ lastDataset[i].Priority \in {"Critical", "High", "Medium", "Low"}

\* A row with two complexity keywords and a simplicity keyword: more than
\* three story points, and hours below the base of the table.
C6_Witness ==
    /\ Predicted
    /\ lastDataset[1].StoryPoints = 5
    /\ lastDataset[1].EstimateHours < 16
    /\ lastDataset[1].Confidence = 99

C8_DefaultBelowTwoPositive ==
    Predicted /\ clean(CallText) # <<>> /\ ~IsEmergency(Lowered(CallText))
        => LET c == call.model.classifications
               row == lastDataset[1]
           IN  IF call.model.throws \/ PositiveScores(c) < 2
               THEN row.Priority = "Medium" /\ row.Confidence = 60
               ELSE /\ row.Priority = c[1].label
                    /\ IsClampedRatio(row.Confidence, c[1].value, c[2].value)

\* C8 amended: without an emergency keyword, an exception or an empty
\* ranking gives Medium and 0.6; any ranking that is not empty gives its top
\* label and top / (top + second) clamped to [0.5, 0.99], where a second
\* score that is missing or zero counts as 1e-9.
C8_DefaultOnFailureOnly ==
    Predicted /\ clean(CallText) # <<>> /\ ~IsEmergency(Lowered(CallText))
        => LET c == call.model.classifications
               row == lastDataset[1]
           IN  IF call.model.throws \/ c = <<>>
               THEN row.Priority = "Medium" /\ row.Confidence = 60
               ELSE /\ row.Priority = c[1].label
                    /\ IsClampedRatio(row.Confidence, c[1].value,
                                      IF Len(c) >= 2 /\ c[2].value > 0
                                      THEN c[2].value ELSE TinyScore)

\* A ranking with one positive score, no emergency keyword: the row has the
\* top label and a confidence of 0.99.
C8_Witness ==
    /\ Predicted
    /\ clean(CallText) # <<>>
    /\ ~IsEmergency(Lowered(CallText))
    /\ ~call.model.throws
    /\ PositiveScores(call.model.classifications) = 1
    /\ lastDataset[1].Priority = "High"
    /\ lastDataset[1].Confidence = 99


(***************************************************************************)
(* Properties of the handlers, under Spec.                                 *)
(***************************************************************************)
\* A chat request was answered with a reply (not with an error).
ChatAnswered == res.kind = "chat" /\ res.status = 200

ChatMsg == Lowered(res.msg.words)

\* The rows are those of one whole batch: numbered 1..n in order.
WholeBatch(rows) == \A i \in 1..Len(rows) : rows[i].Row = i

\* C1: the dataset a chat request reads is always the empty dataset or the
\* complete batch of one predict request: every step leaves it alone,
\* empties it, or is a predict request that installs one whole batch (the
\* batch it returns, when it answers 200); a chat reply is computed from the
\* dataset of its step.
C1_OneSnapshot ==
    [][/\ \/ lastDataset' = lastDataset
          \/ lastDataset' = <<>>
          \/ /\ res'.kind = "predict"
             /\ res'.status \in {200, 500}
             /\ res'.status = 200 => lastDataset' = res'.data
             /\ WholeBatch(lastDataset')
             /\ Len(lastDataset') >= 1
       /\ res'.kind = "chat" /\ res'.status = 200
            => /\ WholeBatch(lastDataset)
               /\ res'.reply.intent = "nodataset" <=> lastDataset = <<>>
               /\ \A i \in 1..Len(res'.reply.rows) :
                     /\ res'.reply.rows[i].Row \in 1..Len(lastDataset)
                     /\ res'.reply.rows[i].Priority
                          = lastDataset[res'.reply.rows[i].Row].Priority
               /\ res'.reply.intent = "distribution"
                    => SumSeq([k \in 1..Len(res'.reply.counts) |->
                                  res'.reply.counts[k][2]]) = Len(lastDataset)
      ]_vars

\* A distribution reply over a dataset of two rows with different
\* priorities, both counted.
C1_Witness ==
    /\ ChatAnswered
    /\ res.reply.intent = "distribution"
    /\ Len(lastDataset) = 2
    /\ Len(res.reply.counts) = 2

\* C2: while the dataset is empty, every chat message that passes
\* validation gets the fixed no-dataset reply, whatever keywords it holds.
C2_EmptyDatasetReply ==
    res.kind = "chat" /\ lastDataset = <<>> /\ ~InvalidMessage(res.msg)
        => /\ res.status = 200
           /\ res.reply = Reply("nodataset")

\* A message with the keywords of three intents, answered with the
\* no-dataset reply.
C2_Witness ==
    /\ ChatAnswered
    /\ lastDataset = <<>>
    /\ whyMatch(ChatMsg).matched
    /\ IncludesAny(ChatMsg, helpPattern)
    /\ res.reply.intent = "nodataset"

\* The order in which the intents are tested.
IntentOrder == <<"explain", "distribution", "help", "top", "average">>

IntentMatches(intent, msg, dataset) ==
    CASE intent = "explain" ->
            /\ whyMatch(msg).matched
            /\ parseInt(whyMatch(msg).group) >= 1
            /\ parseInt(whyMatch(msg).group) <= Len(dataset)
      [] intent = "distribution" -> IncludesAny(msg, distributionPattern)
      [] intent = "help" -> IncludesAny(msg, helpPattern)
      [] intent = "top" -> IncludesAny(msg, topPattern)
      [] intent = "average" -> IncludesAny(msg, averagePattern)
      [] OTHER -> FALSE

\* The earliest intent of the order, from position from on, that the message
\* matches; the fallback when it matches none.
EarliestIntent(from, msg, dataset) ==
    LET hits == {i \in from..Len(IntentOrder) :
                    IntentMatches(IntentOrder[i], msg, dataset)}
    IN  IF hits = {} THEN "fallback"
        ELSE IntentOrder[CHOOSE i \in hits : \A j \in hits : i <= j]

\* C3: with rows in the dataset, the reply is the one of the earliest
\* matching intent in the order explain-row, distribution, help, top-risky,
\* average, and the fallback only when no intent matches.
C3_FirstMatchWins ==
    ChatAnswered /\ lastDataset # <<>>
        => /\ res.reply.intent = EarliestIntent(1, ChatMsg, lastDataset)
           /\ res.reply.intent \notin {"explain", "top"} => res.reply.rows = <<>>
           /\ res.reply.intent # "distribution" => res.reply.counts = <<>>

\* A message that matches help, top-risky and average is answered by help.
C3_Witness ==
    /\ ChatAnswered
    /\ lastDataset # <<>>
    /\ ~IntentMatches("explain", ChatMsg, lastDataset)
    /\ ~IntentMatches("distribution", ChatMsg, lastDataset)
    /\ IntentMatches("help", ChatMsg, lastDataset)
    /\ IntentMatches("top", ChatMsg, lastDataset)
    /\ IntentMatches("average", ChatMsg, lastDataset)
    /\ res.reply.intent = "help"

\* C4: with L rows and a message matching "why <N>": for N < 1 or N > L no
\* error is answered and the reply is the one of the first later intent the
\* message matches, or the fallback; for 1 <= N <= L the reply is the
\* explanation built from the stored fields of the row numbered N.
C4_WhyOutOfRangeFallsThrough ==
    res.kind = "chat" /\ ~InvalidMessage(res.msg) /\ lastDataset # <<>>
      /\ whyMatch(ChatMsg).matched
        => LET N == parseInt(whyMatch(ChatMsg).group)
           IN  /\ res.status = 200
               /\ IF 1 <= N /\ N <= Len(lastDataset)
                  THEN /\ res.reply.intent = "explain"
                       /\ lastDataset[N].Row = N
                       /\ res.reply.rows =
                            <<[Row |-> N,
                               Priority |-> lastDataset[N].Priority,
                               Confidence |-> lastDataset[N].Confidence,
                               Rationale |-> lastDataset[N].Rationale]>>
                  ELSE /\ res.reply.intent # "explain"
                       /\ res.reply.intent = EarliestIntent(2, ChatMsg, lastDataset)

\* "why 2" over a dataset of one row is answered with the fallback.
C4_Witness ==
    /\ ChatAnswered
    /\ Len(lastDataset) = 1
    /\ whyMatch(ChatMsg).matched
    /\ parseInt(whyMatch(ChatMsg).group) = 2
    /\ res.reply.intent = "fallback"

\* C10: a chat request, whatever its message and outcome, leaves the
\* dataset with the same rows in the same order.
C10_ChatKeepsDataset ==
    [][res'.kind = "chat" => lastDataset' = lastDataset]_vars

\* A top-risky reply over a dataset whose rows are not in ranking order.
C10_Witness ==
    /\ ChatAnswered
    /\ res.reply.intent = "top"
    /\ Len(lastDataset) = 2
    /\ priorityRank(lastDataset[1].Priority) < priorityRank(lastDataset[2].Priority)
    /\ res.reply.rows[1].Row = 2

\* A predict request was answered with an error.
PredictFailed == res.kind = "predict" /\ res.status \in {400, 500}

\* C11: a predict request that ends with an error response (400 or 500)
\* leaves the dataset exactly as it was before the request.
C11_FailedPredictKeepsDataset ==
    [][PredictFailed' => lastDataset' = lastDataset]_vars

\* The part of C11 that the handler keeps: a predict request answered with
\* 400 returns before the assignment and leaves the dataset as it was.
C11_RejectedPredictKeepsDataset ==
    [][res'.kind = "predict" /\ res'.status = 400
         => lastDataset' = lastDataset]_vars

\* An error response of a predict request while a batch is stored.
C11_Witness ==
    /\ PredictFailed
    /\ lastDataset # <<>>

(***************************************************************************)
(* Properties of the top-risky reply, under SpecRank.                      *)
(***************************************************************************)
\* C9: the top-risky reply has min(5, n) lines, each for another row, with
\* priority rank non-increasing down the list and confidence non-increasing
\* among equal ranks; no row left out outranks a listed row.
C9_TopRiskyOrder ==
    ChatAnswered /\ res.reply.intent = "top"
        => LET lines == res.reply.rows
               n == Len(lastDataset)
               rank(i) == priorityRank(lastDataset[lines[i].Row].Priority)
               conf(i) == lastDataset[lines[i].Row].Confidence
               listed == {lines[i].Row : i \in 1..Len(lines)}
           IN  /\ Len(lines) = Min(5, n)
               /\ \A i \in 1..Len(lines) :
                     /\ lines[i].Row \in 1..n
                     /\ lines[i].Priority = lastDataset[lines[i].Row].Priority
               /\ \A i, j \in 1..Len(lines) : i # j => lines[i].Row # lines[j].Row
               /\ \A i, j \in 1..Len(lines) :
                     i < j => /\ rank(i) >= rank(j)
                              /\ rank(i) = rank(j) => conf(i) >= conf(j)
               /\ \A r \in (1..n) \ listed : \A i \in 1..Len(lines) :
                     priorityRank(lastDataset[r].Priority) <= rank(i)

\* Six rows stored lowest priority first: five lines, Critical first, two
\* High lines in the order of their confidence, one row left out.
C9_Witness ==
    /\ ChatAnswered
    /\ res.reply.intent = "top"
    /\ Len(lastDataset) = 6
    /\ Len(res.reply.rows) = 5
    /\ lastDataset[1].Priority = "Low"
    /\ lastDataset[6].Priority = "Critical"
    /\ res.reply.rows[1].Row = 6
    /\ res.reply.rows[2].Priority = "High"
    /\ res.reply.rows[3].Priority = "High"
    /\ lastDataset[res.reply.rows[2].Row].Confidence
         > lastDataset[res.reply.rows[3].Row].Confidence
    /\ res.reply.rows[2].Row > res.reply.rows[3].Row

=============================================================================
